---- MODULE Spec2Model ----
(***************************************************************************)
(* Token lifecycle and credential verification of the ridematch            *)
(* auth-service: services/jwt_service.py, services/auth_service.py,        *)
(* routers/auth.py and utils/dependencies.py.                              *)
(*                                                                         *)
(* Time is counted in seconds, the resolution of the exp and iat claims    *)
(* python-jose writes (timegm of the datetime).  SecondsPerMinute stands   *)
(* for 60 and the two *_expire_minutes settings for the deployment's       *)
(* values (15 and 10080 by default); all three are kept small here.        *)
(***************************************************************************)
EXTENDS Integers, Sequences, FiniteSets, TLC

\* ------------------------------------------------------------------ bounds
MaxTime == 3
MaxUsers == 2
MaxIssued == 4
MaxDbChanges == 1
SecondsPerMinute == 1
access_token_expire_minutes == 1
refresh_token_expire_minutes == 2

Emails == {"a@x", "b@x"}
Passwords == {"pw1", "pw2"}
\* The password each email's owner registers with; a login may try any.
OwnPassword(email) == IF email = "a@x" THEN "pw1" ELSE "pw2"

\* Python's None, and Optional values as sequences of length 0 or 1.
None == <<>>
Some(v) == <<v>>

\* settings.jwt_secret_key and a key the service does not use.
jwt_secret_key == "secret"
OtherKey == "other"

VARIABLES
    clock,      \* datetime.utcnow(), in seconds
    users,      \* the users table: id -> row
    nextId,     \* the autoincrement sequence of users.id
    store,      \* Redis: key -> [value, expire_at]
    storeUp,    \* whether Redis answers
    issued,     \* token strings the service has handed to clients
    loggedOut,  \* history: refresh tokens a logout has reported success for
    dbChanges,  \* how many rows were changed outside the endpoints
    resp        \* the last request and its response

vars == <<clock, users, nextId, store, storeUp, issued, loggedOut, dbChanges, resp>>

\* ------------------------------------------------------------ token codec
\* str(user_id) and int(user_id_str).
Str(n) == ToString(n)
ParseInt(s) ==
    IF \E n \in 0..(MaxUsers + 1) : ToString(n) = s
    THEN Some(CHOOSE n \in 0..(MaxUsers + 1) : ToString(n) = s)
    ELSE None

timedelta_minutes(m) == m * SecondsPerMinute

\* `expires_delta or timedelta(minutes=...)`: a zero timedelta is falsy.
OrDefault(expires_delta, default) ==
    IF expires_delta = None \/ expires_delta[1] = 0 THEN default ELSE expires_delta[1]

\* jose.jwt.encode: the string is a function of the payload and the key.
jwt_encode(payload, key) == [jwt |-> payload, key |-> key]
Garbage == [garbage |-> "not.a.jwt"]

\* jose.jwt.decode: well-formedness, signature, then the exp claim
\* (expired when exp < now).  None stands for a raised JWTError.
jwt_decode_no_exp(token, key, now) ==
    IF "jwt" \notin DOMAIN token THEN None
    ELSE IF token.key # key THEN None
    ELSE Some(token.jwt)

jwt_decode(token, key, now) ==
    IF "jwt" \notin DOMAIN token THEN None
    ELSE IF token.key # key THEN None
    ELSE IF "exp" \in DOMAIN token.jwt /\ token.jwt.exp < now THEN None
    ELSE Some(token.jwt)

create_access_token_fixed_exp(user_id, email, is_admin, expires_delta, now) ==
    LET expire == OrDefault(expires_delta, timedelta_minutes(access_token_expire_minutes))
    IN  jwt_encode([sub |-> Str(user_id), email |-> email, is_admin |-> is_admin,
                    type |-> "access", exp |-> expire, iat |-> now], jwt_secret_key)

create_access_token(user_id, email, is_admin, expires_delta, now) ==
    LET expire == now + OrDefault(expires_delta, timedelta_minutes(access_token_expire_minutes))
    IN  jwt_encode([sub |-> Str(user_id), email |-> email, is_admin |-> is_admin,
                    type |-> "access", exp |-> expire, iat |-> now], jwt_secret_key)

create_refresh_token(user_id, expires_delta, now) ==
    LET expire == now + OrDefault(expires_delta, timedelta_minutes(refresh_token_expire_minutes))
    IN  jwt_encode([sub |-> Str(user_id), type |-> "refresh", exp |-> expire, iat |-> now],
                   jwt_secret_key)

\* Returns None or Some(TokenData).
decode_access_token(token, now) ==
    LET decoded == jwt_decode(token, jwt_secret_key, now) IN
    IF decoded = None THEN None
    ELSE LET payload == decoded[1] IN
         IF "sub" \notin DOMAIN payload THEN None
         ELSE IF ParseInt(payload.sub) = None THEN None
         ELSE IF (IF "type" \in DOMAIN payload THEN payload.type ELSE "access") # "access" THEN None
         ELSE Some([user_id |-> ParseInt(payload.sub)[1],
                    email |-> IF "email" \in DOMAIN payload THEN Some(payload.email) ELSE None,
                    is_admin |-> IF "is_admin" \in DOMAIN payload THEN payload.is_admin ELSE FALSE,
                    token_type |-> "access"])

decode_refresh_token_any_kind(token, now) ==
    LET decoded == jwt_decode(token, jwt_secret_key, now) IN
    IF decoded = None THEN None
    ELSE LET payload == decoded[1] IN
         IF "sub" \notin DOMAIN payload THEN None
         ELSE ParseInt(payload.sub)

\* Returns None or Some(user_id).
decode_refresh_token(token, now) ==
    LET decoded == jwt_decode(token, jwt_secret_key, now) IN
    IF decoded = None THEN None
    ELSE LET payload == decoded[1] IN
         IF "sub" \notin DOMAIN payload THEN None
         ELSE IF ("type" \notin DOMAIN payload) \/ payload.type # "refresh" THEN None
         ELSE ParseInt(payload.sub)

\* -------------------------------------------------------- revocation store
REFRESH_TOKEN_PREFIX == "refresh_token:"
sha256(token) == [sha256 |-> token]
_get_token_key_plain(token) == <<REFRESH_TOKEN_PREFIX, token>>

_get_token_key(token) == <<REFRESH_TOKEN_PREFIX, sha256(token)>>

\* Redis SETEX, EXISTS, DEL on a reachable server.
redis_setex(db, key, seconds, value) ==
    [k \in (DOMAIN db) \cup {key} |->
        IF k = key THEN [value |-> value, expire_at |-> clock + seconds] ELSE db[k]]
redis_delete(db, key) == [k \in (DOMAIN db) \ {key} |-> db[k]]
redis_expire_never(db, now) == db
redis_expire(db, now) == [k \in {j \in DOMAIN db : db[j].expire_at > now} |-> db[k]]

store_refresh_token_noop(token, user_id) == [ret |-> FALSE, redis |-> store]

\* Each returns [ret, redis]: the function's result and Redis afterwards.
store_refresh_token(token, user_id) ==
    LET expiration_seconds == refresh_token_expire_minutes * SecondsPerMinute IN
    IF storeUp /\ expiration_seconds > 0
    THEN [ret |-> TRUE,
          redis |-> redis_setex(store, _get_token_key(token), expiration_seconds, Str(user_id))]
    ELSE [ret |-> FALSE, redis |-> store]

is_refresh_token_valid_ignores_outage(token) == _get_token_key(token) \in DOMAIN store

is_refresh_token_valid_always(token) == TRUE

is_refresh_token_valid(token) ==
    storeUp /\ _get_token_key(token) \in DOMAIN store

revoke_refresh_token_sweeps(token) ==
    IF storeUp THEN [ret |-> TRUE, redis |-> << >>] ELSE [ret |-> FALSE, redis |-> store]

revoke_refresh_token_strict(token) ==
    IF storeUp
    THEN [ret |-> _get_token_key(token) \in DOMAIN store,
          redis |-> redis_delete(store, _get_token_key(token))]
    ELSE [ret |-> FALSE, redis |-> store]

revoke_refresh_token_keeps(token) == [ret |-> storeUp, redis |-> store]

revoke_refresh_token(token) ==
    IF storeUp
    THEN [ret |-> TRUE, redis |-> redis_delete(store, _get_token_key(token))]
    ELSE [ret |-> FALSE, redis |-> store]

revoke_all_user_tokens_counts_in_outage(user_id) ==
    LET hit == {k \in DOMAIN store : store[k].value = Str(user_id)} IN
    IF storeUp
    THEN [ret |-> Cardinality(hit), redis |-> [k \in (DOMAIN store) \ hit |-> store[k]]]
    ELSE [ret |-> Cardinality(hit), redis |-> store]

revoke_all_user_tokens(user_id) ==
    IF storeUp
    THEN LET hit == {k \in DOMAIN store : store[k].value = Str(user_id)} IN
         [ret |-> Cardinality(hit), redis |-> [k \in (DOMAIN store) \ hit |-> store[k]]]
    ELSE [ret |-> 0, redis |-> store]

\* ---------------------------------------------------- credential verifier
\* utils/password.py: a salted one-way hash; verification recomputes it with
\* the salt embedded in the stored value.  The fresh salt of a call is
\* passed in.
hash_password(password, salt) == [salt |-> salt, digest |-> <<salt, password>>]
verify_password(password, password_hash) ==
    hash_password(password, password_hash.salt) = password_hash

\* ----------------------------------------------------------- user directory
email_exists(email) == \E id \in DOMAIN users : users[id].email = email

\* db.query(User).filter(User.email == email).first(): None or Some(id).
get_user_by_email(email) ==
    IF email_exists(email)
    THEN Some(CHOOSE id \in DOMAIN users : users[id].email = email)
    ELSE None

get_user_by_id(user_id) == IF user_id \in DOMAIN users THEN Some(user_id) ELSE None

authenticate_user_active_first(email, password) ==
    LET user == get_user_by_email(email) IN
    IF user = None THEN [error |-> "Invalid email or password", user_id |-> 0]
    ELSE IF ~users[user[1]].is_active
         THEN [error |-> "Account is deactivated", user_id |-> 0]
    ELSE IF ~verify_password(password, users[user[1]].password_hash)
         THEN [error |-> "Invalid email or password", user_id |-> 0]
    ELSE [error |-> "", user_id |-> user[1]]

authenticate_user_no_password(email, password) ==
    LET user == get_user_by_email(email) IN
    IF user = None THEN [error |-> "Invalid email or password", user_id |-> 0]
    ELSE IF ~users[user[1]].is_active
         THEN [error |-> "Account is deactivated", user_id |-> 0]
    ELSE [error |-> "", user_id |-> user[1]]

\* authenticate_user: [error, user_id]; error is "" on success, else the
\* AuthenticationError's message.
authenticate_user(email, password) ==
    LET user == get_user_by_email(email) IN
    IF user = None THEN [error |-> "Invalid email or password", user_id |-> 0]
    ELSE IF ~verify_password(password, users[user[1]].password_hash)
         THEN [error |-> "Invalid email or password", user_id |-> 0]
    ELSE IF ~users[user[1]].is_active
         THEN [error |-> "Account is deactivated", user_id |-> 0]
    ELSE [error |-> "", user_id |-> user[1]]

\* ------------------------------------------------------- requests, responses
Idle ==
    [op |-> "idle", status |-> 0, detail |-> "", email |-> "", password |-> "",
     bearer |-> None, refresh_arg |-> None, access_token |-> None,
     refresh_token |-> None, user_id |-> 0]

\* What a client can send as a token: a string the service issued, such a
\* string re-signed with another key, or a string that is no JWT.
Presentable ==
    issued \cup {jwt_encode(t.jwt, OtherKey) : t \in issued} \cup {Garbage}

_create_tokens_drops_unregistered(user_id, row) ==
    LET access_token == create_access_token(user_id, row.email, row.is_admin, None, clock)
        refresh_token == create_refresh_token(user_id, None, clock)
        stored == store_refresh_token(refresh_token, user_id)
    IN  [access |-> access_token,
         refresh |-> IF stored.ret THEN refresh_token ELSE Garbage,
         redis |-> stored.redis]

\* _create_tokens: [access, refresh, redis].
_create_tokens(user_id, row) ==
    LET access_token == create_access_token(user_id, row.email, row.is_admin, None, clock)
        refresh_token == create_refresh_token(user_id, None, clock)
    IN  [access |-> access_token, refresh |-> refresh_token,
         redis |-> store_refresh_token(refresh_token, user_id).redis]

get_current_user_no_lookup(token) ==
    LET token_data == decode_access_token(token, clock) IN
    IF token_data = None THEN [status |-> 401, user_id |-> 0]
    ELSE [status |-> 200, user_id |-> token_data[1].user_id]

get_current_user_checks_sessions(token) ==
    LET token_data == decode_access_token(token, clock) IN
    IF token_data = None THEN [status |-> 401, user_id |-> 0]
    ELSE IF get_user_by_id(token_data[1].user_id) = None THEN [status |-> 401, user_id |-> 0]
    ELSE IF \A k \in DOMAIN store : store[k].value # Str(token_data[1].user_id)
         THEN [status |-> 401, user_id |-> 0]
    ELSE [status |-> 200, user_id |-> token_data[1].user_id]

\* get_current_user: [status, user_id].
get_current_user(token) ==
    LET token_data == decode_access_token(token, clock) IN
    IF token_data = None THEN [status |-> 401, user_id |-> 0]
    ELSE IF get_user_by_id(token_data[1].user_id) = None THEN [status |-> 401, user_id |-> 0]
    ELSE [status |-> 200, user_id |-> token_data[1].user_id]

\* ------------------------------------------------------------------ actions
Init ==
    /\ clock = 0
    /\ users = << >>
    /\ nextId = 1
    /\ store = << >>
    /\ storeUp = TRUE
    /\ issued = {}
    /\ loggedOut = {}
    /\ dbChanges = 0
    /\ resp = Idle

\* A request that is answered without changing anything.
Reply(r) ==
    /\ resp' = r
    /\ UNCHANGED <<clock, users, nextId, store, storeUp, issued, loggedOut, dbChanges>>

\* POST /register
register(email, password) ==
    /\ resp = Idle
    /\ LET req == [Idle EXCEPT !.op = "register", !.email = email, !.password = password] IN
       IF email_exists(email)
       THEN Reply([req EXCEPT !.status = 409, !.detail = "Email already registered"])
       ELSE LET row == [email |-> email, password_hash |-> hash_password(password, nextId),
                        is_admin |-> FALSE, is_active |-> TRUE, last_login_at |-> None]
                t == _create_tokens(nextId, row)
            IN  /\ nextId <= MaxUsers
                /\ Cardinality(issued \cup {t.access, t.refresh}) <= MaxIssued
                /\ users' = [id \in (DOMAIN users) \cup {nextId} |->
                                IF id = nextId THEN row ELSE users[id]]
                /\ nextId' = nextId + 1
                /\ store' = t.redis
                /\ issued' = issued \cup {t.access, t.refresh}
                /\ resp' = [req EXCEPT !.status = 201,
                                       !.access_token = Some(t.access),
                                       !.refresh_token = Some(t.refresh),
                                       !.user_id = nextId]
                /\ UNCHANGED <<clock, storeUp, loggedOut, dbChanges>>

login_stamps_failed(email, password) ==
    /\ resp = Idle
    /\ LET auth == authenticate_user(email, password)
           req == [Idle EXCEPT !.op = "login", !.email = email, !.password = password]
           user == get_user_by_email(email)
       IN
       IF auth.error # ""
       THEN /\ resp' = [req EXCEPT !.status = 401, !.detail = auth.error]
            /\ users' = IF user = None THEN users
                        ELSE [users EXCEPT ![user[1]].last_login_at = Some(clock)]
            /\ UNCHANGED <<clock, nextId, store, storeUp, issued, loggedOut, dbChanges>>
       ELSE LET row == [users[auth.user_id] EXCEPT !.last_login_at = Some(clock)]
                t == _create_tokens(auth.user_id, row)
            IN  /\ Cardinality(issued \cup {t.access, t.refresh}) <= MaxIssued
                /\ users' = [users EXCEPT ![auth.user_id] = row]
                /\ store' = t.redis
                /\ issued' = issued \cup {t.access, t.refresh}
                /\ resp' = [req EXCEPT !.status = 200,
                                       !.access_token = Some(t.access),
                                       !.refresh_token = Some(t.refresh),
                                       !.user_id = auth.user_id]
                /\ UNCHANGED <<clock, nextId, storeUp, loggedOut, dbChanges>>

\* POST /login; POST /login/form takes the same steps with the form's
\* username as the email.
login(email, password) ==
    /\ resp = Idle
    /\ LET auth == authenticate_user(email, password)
           req == [Idle EXCEPT !.op = "login", !.email = email, !.password = password]
       IN
       IF auth.error # ""
       THEN Reply([req EXCEPT !.status = 401, !.detail = auth.error])
       ELSE LET row == [users[auth.user_id] EXCEPT !.last_login_at = Some(clock)]
                t == _create_tokens(auth.user_id, row)
            IN  /\ Cardinality(issued \cup {t.access, t.refresh}) <= MaxIssued
                /\ users' = [users EXCEPT ![auth.user_id] = row]
                /\ store' = t.redis
                /\ issued' = issued \cup {t.access, t.refresh}
                /\ resp' = [req EXCEPT !.status = 200,
                                       !.access_token = Some(t.access),
                                       !.refresh_token = Some(t.refresh),
                                       !.user_id = auth.user_id]
                /\ UNCHANGED <<clock, nextId, storeUp, loggedOut, dbChanges>>

refresh_response_no_active_check(token) ==
    LET user_id == decode_refresh_token(token, clock)
        req == [Idle EXCEPT !.op = "refresh", !.refresh_arg = Some(token)]
    IN
    IF user_id = None
    THEN [req EXCEPT !.status = 401, !.detail = "Invalid or expired refresh token"]
    ELSE IF ~is_refresh_token_valid(token)
    THEN [req EXCEPT !.status = 401, !.detail = "Refresh token has been revoked"]
    ELSE IF get_user_by_id(user_id[1]) = None
    THEN [req EXCEPT !.status = 401, !.detail = "User not found"]
    ELSE LET user == users[user_id[1]] IN
         [req EXCEPT !.status = 200,
                     !.access_token = Some(create_access_token(user_id[1], user.email,
                                                               user.is_admin, None, clock)),
                     !.user_id = user_id[1]]

refresh_response_fail_open(token) ==
    LET user_id == decode_refresh_token(token, clock)
        req == [Idle EXCEPT !.op = "refresh", !.refresh_arg = Some(token)]
    IN
    IF user_id = None
    THEN [req EXCEPT !.status = 401, !.detail = "Invalid or expired refresh token"]
    ELSE IF storeUp /\ ~is_refresh_token_valid(token)
    THEN [req EXCEPT !.status = 401, !.detail = "Refresh token has been revoked"]
    ELSE IF get_user_by_id(user_id[1]) = None
    THEN [req EXCEPT !.status = 401, !.detail = "User not found"]
    ELSE IF ~users[user_id[1]].is_active
    THEN [req EXCEPT !.status = 403, !.detail = "Account is deactivated"]
    ELSE LET user == users[user_id[1]] IN
         [req EXCEPT !.status = 200,
                     !.access_token = Some(create_access_token(user_id[1], user.email,
                                                               user.is_admin, None, clock)),
                     !.user_id = user_id[1]]

refresh_response_stale_claims(token) ==
    LET user_id == decode_refresh_token(token, clock)
        req == [Idle EXCEPT !.op = "refresh", !.refresh_arg = Some(token)]
    IN
    IF user_id = None
    THEN [req EXCEPT !.status = 401, !.detail = "Invalid or expired refresh token"]
    ELSE IF ~is_refresh_token_valid(token)
    THEN [req EXCEPT !.status = 401, !.detail = "Refresh token has been revoked"]
    ELSE IF get_user_by_id(user_id[1]) = None
    THEN [req EXCEPT !.status = 401, !.detail = "User not found"]
    ELSE IF ~users[user_id[1]].is_active
    THEN [req EXCEPT !.status = 403, !.detail = "Account is deactivated"]
    ELSE LET user == users[user_id[1]] IN
         [req EXCEPT !.status = 200,
                     !.access_token = Some(create_access_token(user_id[1], user.email,
                                                               FALSE, None, clock)),
                     !.user_id = user_id[1]]

\* POST /refresh: the response.
refresh_response(token) ==
    LET user_id == decode_refresh_token(token, clock)
        req == [Idle EXCEPT !.op = "refresh", !.refresh_arg = Some(token)]
    IN
    IF user_id = None
    THEN [req EXCEPT !.status = 401, !.detail = "Invalid or expired refresh token"]
    ELSE IF ~is_refresh_token_valid(token)
    THEN [req EXCEPT !.status = 401, !.detail = "Refresh token has been revoked"]
    ELSE IF get_user_by_id(user_id[1]) = None
    THEN [req EXCEPT !.status = 401, !.detail = "User not found"]
    ELSE IF ~users[user_id[1]].is_active
    THEN [req EXCEPT !.status = 403, !.detail = "Account is deactivated"]
    ELSE LET user == users[user_id[1]] IN
         [req EXCEPT !.status = 200,
                     !.access_token = Some(create_access_token(user_id[1], user.email,
                                                               user.is_admin, None, clock)),
                     !.user_id = user_id[1]]

refresh_token_rotating(token) ==
    /\ resp = Idle
    /\ LET r == refresh_response(token) IN
       IF r.status # 200
       THEN Reply(r)
       ELSE /\ Cardinality(issued \cup {r.access_token[1]}) <= MaxIssued
            /\ issued' = issued \cup {r.access_token[1]}
            /\ store' = revoke_refresh_token(token).redis
            /\ resp' = r
            /\ UNCHANGED <<clock, users, nextId, storeUp, loggedOut, dbChanges>>

\* POST /refresh: no store call but the EXISTS of is_refresh_token_valid.
refresh_token(token) ==
    /\ resp = Idle
    /\ LET r == refresh_response(token) IN
       IF r.status # 200
       THEN Reply(r)
       ELSE /\ Cardinality(issued \cup {r.access_token[1]}) <= MaxIssued
            /\ issued' = issued \cup {r.access_token[1]}
            /\ resp' = r
            /\ UNCHANGED <<clock, users, nextId, store, storeUp, loggedOut, dbChanges>>

logout_response_any_owner(bearer, token) ==
    LET current_user == get_current_user(bearer)
        user_id == decode_refresh_token(token, clock)
        req == [Idle EXCEPT !.op = "logout", !.refresh_arg = Some(token),
                            !.user_id = current_user.user_id]
    IN
    IF current_user.status # 200
    THEN [req EXCEPT !.status = 401, !.detail = "Could not validate credentials",
                     !.refresh_arg = None]
    ELSE IF user_id = None
    THEN [req EXCEPT !.status = 400, !.detail = "Invalid refresh token"]
    ELSE [req EXCEPT !.status = 200, !.detail = "Successfully logged out"]

\* POST /logout, behind the CurrentUser dependency: the response.
logout_response(bearer, token) ==
    LET current_user == get_current_user(bearer)
        user_id == decode_refresh_token(token, clock)
        \* the handler's body runs, and reads the token, once the dependency has a user
        req == [Idle EXCEPT !.op = "logout", !.refresh_arg = Some(token),
                            !.user_id = current_user.user_id]
    IN
    IF current_user.status # 200
    THEN [req EXCEPT !.status = 401, !.detail = "Could not validate credentials",
                     !.refresh_arg = None]
    ELSE IF user_id = None \/ user_id[1] # current_user.user_id
    THEN [req EXCEPT !.status = 400, !.detail = "Invalid refresh token"]
    ELSE [req EXCEPT !.status = 200, !.detail = "Successfully logged out"]

logout(bearer, token) ==
    /\ resp = Idle
    /\ LET r == logout_response(bearer, token) IN
       IF r.status # 200
       THEN Reply(r)
       ELSE /\ store' = revoke_refresh_token(token).redis
            /\ loggedOut' = loggedOut \cup {token}
            /\ resp' = r
            /\ UNCHANGED <<clock, users, nextId, storeUp, issued, dbChanges>>

\* A route protected by the CurrentUser dependency
authorize(bearer) ==
    /\ resp = Idle
    /\ LET current_user == get_current_user(bearer) IN
       Reply([Idle EXCEPT !.op = "authorize", !.bearer = Some(bearer),
                          !.status = current_user.status,
                          !.detail = IF current_user.status = 200 THEN ""
                                     ELSE "Could not validate credentials",
                          !.user_id = current_user.user_id])

\* revoke_all_user_tokens, called with the store as it stands
revoke_all(user_id) ==
    LET r == revoke_all_user_tokens(user_id) IN
    /\ resp = Idle
    /\ store' = r.redis
    /\ resp' = [Idle EXCEPT !.op = "revoke_all", !.status = r.ret, !.user_id = user_id]
    /\ UNCHANGED <<clock, users, nextId, storeUp, issued, loggedOut, dbChanges>>

\* A second passes; Redis drops the keys whose time to live has run out.
Tick ==
    /\ resp = Idle
    /\ clock < MaxTime
    /\ clock' = clock + 1
    /\ store' = redis_expire(store, clock + 1)
    /\ UNCHANGED <<users, nextId, storeUp, issued, loggedOut, dbChanges, resp>>

\* Redis becomes unreachable, or reachable again.
StoreOutage ==
    /\ resp = Idle
    /\ storeUp' = ~storeUp
    /\ UNCHANGED <<clock, users, nextId, store, issued, loggedOut, dbChanges, resp>>

\* Rows of the users table change outside the service's endpoints.
DbChange(rows) ==
    /\ resp = Idle
    /\ dbChanges < MaxDbChanges
    /\ dbChanges' = dbChanges + 1
    /\ users' = rows
    /\ UNCHANGED <<clock, nextId, store, storeUp, issued, loggedOut, resp>>

db_deactivate(id) ==
    /\ id \in DOMAIN users /\ users[id].is_active
    /\ DbChange([users EXCEPT ![id].is_active = FALSE])

db_set_admin(id) ==
    /\ id \in DOMAIN users /\ ~users[id].is_admin
    /\ DbChange([users EXCEPT ![id].is_admin = TRUE])

db_delete(id) ==
    /\ id \in DOMAIN users
    /\ DbChange([k \in (DOMAIN users) \ {id} |-> users[k]])

\* The response has been sent; the next request can be served.
Respond ==
    /\ resp # Idle
    /\ resp' = Idle
    /\ UNCHANGED <<clock, users, nextId, store, storeUp, issued, loggedOut, dbChanges>>

\* Requests are served one at a time: the handlers are coroutines without an
\* await in their bodies.
Next ==
    \/ \E e \in Emails : register(e, OwnPassword(e))
    \/ \E e \in Emails, p \in Passwords : login(e, p)
    \/ \E t \in Presentable : refresh_token(t)
    \/ \E b \in Presentable, t \in Presentable : logout(b, t)
    \/ \E b \in Presentable : authorize(b)
    \/ \E id \in 1..MaxUsers : revoke_all(id)
    \/ Tick
    \/ StoreOutage
    \/ \E id \in 1..MaxUsers : db_deactivate(id)
    \/ \E id \in 1..MaxUsers : db_set_admin(id)
    \/ \E id \in 1..MaxUsers : db_delete(id)
    \/ Respond

Spec == Init /\ [][Next]_vars

\* ------------------------------------------------ the functions called alone
\* jwt_service.py as a library: any caller, any argument.  resp holds the
\* last call, its arguments and what it returned.
MaxMinted == 1
MaxRegistered == 2
ExpiresDeltas == {None, Some(0), Some(1), Some(2)}

LibIdle ==
    [op |-> "idle", token |-> None, user_id |-> 0, email |-> "", is_admin |-> FALSE,
     expires_delta |-> None, result |-> None, ret |-> FALSE, count |-> 0]

\* Strings signed with the service's key that the service itself never
\* mints: no type claim, a subject that is no integer, no subject.
WithoutType(t) == jwt_encode([k \in (DOMAIN t.jwt) \ {"type"} |-> t.jwt[k]], jwt_secret_key)
WithBadSubject(t) == jwt_encode([t.jwt EXCEPT !.sub = "abc"], jwt_secret_key)
WithoutSubject(t) == jwt_encode([k \in (DOMAIN t.jwt) \ {"sub"} |-> t.jwt[k]], jwt_secret_key)
Inputs ==
    Presentable \cup {WithoutType(t) : t \in issued}
                \cup {WithBadSubject(t) : t \in issued}
                \cup {WithoutSubject(t) : t \in issued}

LibInit ==
    /\ clock = 0
    /\ users = << >>
    /\ nextId = 1
    /\ store = << >>
    /\ storeUp = TRUE
    /\ issued = {}
    /\ loggedOut = {}
    /\ dbChanges = 0
    /\ resp = LibIdle

\* A call that touches neither Redis nor the caller's tokens.
Returns(r) ==
    /\ resp' = r
    /\ UNCHANGED <<clock, users, nextId, store, storeUp, issued, loggedOut, dbChanges>>

\* The caller keeps the token it was given.
Mints(token, r, bound) ==
    /\ Cardinality(issued \cup {token}) <= bound
    /\ issued' = issued \cup {token}
    /\ resp' = [r EXCEPT !.token = Some(token)]
    /\ UNCHANGED <<clock, users, nextId, store, storeUp, loggedOut, dbChanges>>

call_create_access_token(user_id, email, is_admin, expires_delta) ==
    Mints(create_access_token(user_id, email, is_admin, expires_delta, clock),
          [LibIdle EXCEPT !.op = "create_access_token", !.user_id = user_id,
                          !.email = email, !.is_admin = is_admin,
                          !.expires_delta = expires_delta], MaxMinted)

call_create_refresh_token(user_id, expires_delta, bound) ==
    Mints(create_refresh_token(user_id, expires_delta, clock),
          [LibIdle EXCEPT !.op = "create_refresh_token", !.user_id = user_id,
                          !.expires_delta = expires_delta], bound)

call_decode_access_token(token) ==
    Returns([LibIdle EXCEPT !.op = "decode_access_token", !.token = Some(token),
                            !.result = decode_access_token(token, clock)])

call_decode_refresh_token(token) ==
    Returns([LibIdle EXCEPT !.op = "decode_refresh_token", !.token = Some(token),
                            !.result = decode_refresh_token(token, clock)])

\* A call that may write Redis.
Writes(r, redis) ==
    /\ resp' = r
    /\ store' = redis
    /\ UNCHANGED <<clock, users, nextId, storeUp, issued, loggedOut, dbChanges>>

call_store_refresh_token(token, user_id) ==
    LET r == store_refresh_token(token, user_id) IN
    Writes([LibIdle EXCEPT !.op = "store_refresh_token", !.token = Some(token),
                           !.user_id = user_id, !.ret = r.ret], r.redis)

call_is_refresh_token_valid(token) ==
    Returns([LibIdle EXCEPT !.op = "is_refresh_token_valid", !.token = Some(token),
                            !.ret = is_refresh_token_valid(token)])

call_revoke_refresh_token(token) ==
    LET r == revoke_refresh_token(token) IN
    Writes([LibIdle EXCEPT !.op = "revoke_refresh_token", !.token = Some(token),
                           !.ret = r.ret], r.redis)

call_revoke_all_user_tokens(user_id) ==
    LET r == revoke_all_user_tokens(user_id) IN
    Writes([LibIdle EXCEPT !.op = "revoke_all_user_tokens", !.user_id = user_id,
                           !.count = r.ret], r.redis)

LibTick ==
    /\ clock < MaxTime
    /\ clock' = clock + 1
    /\ store' = redis_expire(store, clock + 1)
    /\ resp' = [LibIdle EXCEPT !.op = "tick"]
    /\ UNCHANGED <<users, nextId, storeUp, issued, loggedOut, dbChanges>>

LibOutage ==
    /\ storeUp' = ~storeUp
    /\ resp' = [LibIdle EXCEPT !.op = "outage"]
    /\ UNCHANGED <<clock, users, nextId, store, issued, loggedOut, dbChanges>>

\* The codec alone: mint, decode, and time passing.
CodecNext ==
    \/ \E u \in 1..MaxUsers, e \in Emails, a \in BOOLEAN, d \in ExpiresDeltas :
          call_create_access_token(u, e, a, d)
    \/ \E u \in 1..MaxUsers, d \in ExpiresDeltas : call_create_refresh_token(u, d, MaxMinted)
    \/ \E t \in Inputs : call_decode_access_token(t)
    \/ \E t \in Inputs : call_decode_refresh_token(t)
    \/ LibTick

CodecSpec == LibInit /\ [][CodecNext]_vars

\* The revocation store alone, on refresh tokens minted with any lifetime.
StoreNext ==
    \/ \E u \in 1..MaxUsers, d \in ExpiresDeltas : call_create_refresh_token(u, d, MaxRegistered)
    \/ \E t \in issued, u \in 1..MaxUsers : call_store_refresh_token(t, u)
    \/ \E t \in issued : call_is_refresh_token_valid(t)
    \/ \E t \in issued : call_revoke_refresh_token(t)
    \/ \E u \in 1..MaxUsers : call_revoke_all_user_tokens(u)
    \/ LibTick
    \/ LibOutage

StoreSpec == LibInit /\ [][StoreNext]_vars

\* ------------------------------------------------------------- properties
\* The vocabulary of the statements below, read off the token strings and
\* the state, not off the decoders.
IsJwt(t) == "jwt" \in DOMAIN t
GoodSignature(t) == IsJwt(t) /\ t.key = jwt_secret_key
\* Signature valid and expiry not passed (the codec rejects once exp < now).
CodecAccepts(t) == GoodSignature(t) /\ t.jwt.exp >= clock
PastExpiry(t) == GoodSignature(t) /\ t.jwt.exp < clock
IsRefreshKind(t) == IsJwt(t) /\ t.jwt.type = "refresh"
IsAccessKind(t) == IsJwt(t) /\ t.jwt.type = "access"
HasEntry(t) == _get_token_key(t) \in DOMAIN store
EntryOwned(t) == HasEntry(t) /\ store[_get_token_key(t)].value = t.jwt.sub
SubjectActive(t) == \E id \in DOMAIN users : Str(id) = t.jwt.sub /\ users[id].is_active
SubjectMissing(t) == \A id \in DOMAIN users : Str(id) # t.jwt.sub

RevokedToken(r) == r.status = 401 /\ r.detail = "Refresh token has been revoked"
InvalidToken(r) == r.status \in {400, 401} /\ r.detail \in
    {"Invalid or expired refresh token", "Invalid refresh token", "User not found"}
Minted(r) == r.status = 200 /\ r.access_token # None

C2_AsStated ==
    (resp.op = "refresh" /\ resp.refresh_arg[1] \in loggedOut) => RevokedToken(resp)

\* C2 amended: a logout that reports success with the store reachable leaves
\* no entry for its refresh token; while no entry for a logged-out token
\* exists a refresh with it fails, with RevokedToken while the token still
\* decodes and with InvalidToken once it has expired; and the entry of a
\* logged-out token comes back only when a login or registration hands out
\* the identical token string again.
C2_AfterLogout ==
    [][ /\ (resp'.op = "logout" /\ resp'.status = 200 /\ storeUp')
            => _get_token_key(resp'.refresh_arg[1]) \notin DOMAIN store'
        /\ (resp'.op = "refresh" /\ resp'.refresh_arg[1] \in loggedOut'
                /\ _get_token_key(resp'.refresh_arg[1]) \notin DOMAIN store')
            => IF resp'.refresh_arg[1].jwt.exp >= clock'
               THEN RevokedToken(resp')
               ELSE resp'.status = 401 /\ resp'.detail = "Invalid or expired refresh token"
        /\ \A t \in loggedOut :
              (_get_token_key(t) \notin DOMAIN store /\ _get_token_key(t) \in DOMAIN store')
                  => /\ resp'.op \in {"login", "register"}
                     /\ resp'.refresh_token = Some(t)
      ]_vars

C2_Witness ==
    /\ resp.op = "refresh" /\ resp.refresh_arg[1] \in loggedOut
    /\ RevokedToken(resp)

\* C3: a logout by an authenticated user deletes an entry only when the
\* refresh token decodes as a refresh token of that user, and then only that
\* token's entry; otherwise it fails with InvalidToken and the store is
\* unchanged; entries of other users are never touched.
C3_LogoutOwnSessionOnly ==
    [][ (resp'.op = "logout" /\ resp'.status # 401) =>
            LET t == resp'.refresh_arg[1]
                who == resp'.user_id
                own == CodecAccepts(t) /\ IsRefreshKind(t) /\ t.jwt.sub = Str(who)
            IN  /\ own => /\ resp'.status = 200
                          /\ DOMAIN store' = (DOMAIN store) \ (IF storeUp THEN {_get_token_key(t)} ELSE {})
                /\ ~own => InvalidToken(resp') /\ store' = store
                /\ \A k \in DOMAIN store :
                      store[k].value # Str(who) => (k \in DOMAIN store' /\ store'[k] = store[k])
      ]_vars

C3_Witness ==
    /\ resp.op = "logout" /\ InvalidToken(resp)
    /\ LET t == resp.refresh_arg[1] IN
       CodecAccepts(t) /\ IsRefreshKind(t) /\ EntryOwned(t) /\ t.jwt.sub # Str(resp.user_id)

\* C4: a refresh call, succeeding or failing, leaves the revocation store as
\* it was: no entry is deleted, added or rewritten.
C4_RefreshKeepsStore ==
    [][ resp'.op = "refresh" => store' = store ]_vars

C4_Witness ==
    resp.op = "refresh" /\ Minted(resp) /\ HasEntry(resp.refresh_arg[1])

\* C5 as stated, with expired meaning now >= expires_at: a refresh with an
\* expired refresh token fails with InvalidToken and is never reported as
\* revoked.
C5_AsStated ==
    (resp.op = "refresh" /\ GoodSignature(resp.refresh_arg[1])
        /\ IsRefreshKind(resp.refresh_arg[1]) /\ clock >= resp.refresh_arg[1].jwt.exp)
      => (resp.status = 401 /\ resp.detail = "Invalid or expired refresh token")

\* C5 with expiry as the codec decides it (exp < now): a refresh with a
\* refresh token that decodes but has no store entry fails with
\* RevokedToken; with a refresh token past its expiry it fails with
\* InvalidToken, never with RevokedToken.
C5_RevokedVersusExpired ==
    resp.op = "refresh" =>
        LET t == resp.refresh_arg[1] IN
        /\ (CodecAccepts(t) /\ IsRefreshKind(t) /\ ~HasEntry(t)) => RevokedToken(resp)
        /\ (PastExpiry(t) /\ IsRefreshKind(t))
              => (resp.status = 401 /\ resp.detail = "Invalid or expired refresh token")

C5_Witness ==
    /\ resp.op = "refresh" /\ InvalidToken(resp)
    /\ PastExpiry(resp.refresh_arg[1]) /\ IsRefreshKind(resp.refresh_arg[1])

\* C6 as stated: a successful refresh returns an access token whose subject
\* is the refresh token's subject and whose expires_at differs from that of
\* every access token issued before the call.
C6_AsStated ==
    [][ (resp'.op = "refresh" /\ resp'.status = 200) =>
            LET new == resp'.access_token[1] IN
            /\ new.jwt.sub = resp'.refresh_arg[1].jwt.sub
            /\ \A a \in issued : IsAccessKind(a) => a.jwt.exp # new.jwt.exp
      ]_vars

\* C6 amended: a successful refresh returns an access token whose subject
\* is the refresh token's subject and whose expires_at is the second of the
\* call plus the access lifetime, so it differs from the expires_at of every
\* access token issued in an earlier second (and equals that of an access
\* token issued in the same second).
C6_FreshExpiry ==
    [][ (resp'.op = "refresh" /\ resp'.status = 200) =>
            LET new == resp'.access_token[1] IN
            /\ IsAccessKind(new)
            /\ new.jwt.sub = resp'.refresh_arg[1].jwt.sub
            /\ new.jwt.exp = clock' + timedelta_minutes(access_token_expire_minutes)
            /\ \A a \in issued :
                  IsAccessKind(a) =>
                      IF a.jwt.iat < clock' THEN a.jwt.exp # new.jwt.exp
                                           ELSE a.jwt.exp = new.jwt.exp
      ]_vars

C6_Witness ==
    /\ resp.op = "refresh" /\ Minted(resp)
    /\ \E a \in issued :
          /\ IsAccessKind(a) /\ a.jwt.iat < clock
          /\ a.jwt.sub = resp.access_token[1].jwt.sub

\* C7: a refresh with a token that decodes and is registered fails as
\* unauthorized with InvalidToken when the token's user is not in the user
\* directory, and as forbidden (403) when the user exists but is inactive;
\* neither response carries an access token.
C7_MissingOrInactiveUser ==
    resp.op = "refresh" =>
        LET t == resp.refresh_arg[1] IN
        (CodecAccepts(t) /\ IsRefreshKind(t) /\ storeUp /\ HasEntry(t)) =>
            /\ SubjectMissing(t) =>
                  /\ InvalidToken(resp) /\ resp.status = 401
                  /\ resp.access_token = None
            /\ (~SubjectMissing(t) /\ ~SubjectActive(t)) =>
                  /\ resp.status = 403 /\ resp.detail = "Account is deactivated"
                  /\ resp.access_token = None

C7_Witness ==
    /\ resp.op = "refresh" /\ resp.status = 403
    /\ HasEntry(resp.refresh_arg[1]) /\ ~SubjectMissing(resp.refresh_arg[1])

C9_LoginMintsAndRegisters ==
    (resp.op \in {"login", "register"} /\ resp.status \in {200, 201}) =>
        /\ resp.access_token # None /\ resp.refresh_token # None
        /\ LET access == resp.access_token[1]
               refresh == resp.refresh_token[1]
           IN  /\ resp.user_id \in DOMAIN users
               /\ users[resp.user_id].email = resp.email
               /\ IsAccessKind(access) /\ access.jwt.sub = Str(resp.user_id)
               /\ IsRefreshKind(refresh) /\ refresh.jwt.sub = Str(resp.user_id)
               /\ {access, refresh} \subseteq issued
               /\ storeUp => /\ is_refresh_token_valid(refresh)
                             /\ EntryOwned(refresh)
                             /\ decode_refresh_token(refresh, clock) = Some(resp.user_id)
               /\ get_current_user(access) = [status |-> 200, user_id |-> resp.user_id]

C9_Witness ==
    /\ resp.op = "login" /\ resp.status = 200 /\ storeUp
    /\ HasEntry(resp.refresh_token[1])

\* C10: the two token kinds are disjoint: at every time decode_refresh_token
\* of an access token and decode_access_token of a refresh token are None,
\* so the CurrentUser dependency never admits a refresh token and neither
\* refresh nor logout succeeds with an access token.
C10_KindsDisjoint ==
    /\ \A t \in Presentable, now \in 0..MaxTime :
          /\ IsAccessKind(t) => decode_refresh_token(t, now) = None
          /\ IsRefreshKind(t) => decode_access_token(t, now) = None
    /\ \A t \in Presentable : IsRefreshKind(t) => get_current_user(t).status = 401
    /\ (resp.op = "authorize" /\ IsRefreshKind(resp.bearer[1])) => resp.status = 401
    /\ (resp.op \in {"refresh", "logout"} /\ resp.refresh_arg # None
            /\ IsAccessKind(resp.refresh_arg[1]))
          => (resp.status \in {400, 401} /\ InvalidToken(resp) /\ resp.access_token = None)

C10_Witness ==
    /\ resp.op = "refresh" /\ resp.status = 401
    /\ IsAccessKind(resp.refresh_arg[1]) /\ CodecAccepts(resp.refresh_arg[1])
    /\ get_current_user(resp.refresh_arg[1]).status = 200

\* ---- the codec called alone (CodecSpec)
\* The configured lifetime of each kind, in seconds.
DefaultLifetime(op) ==
    IF op = "create_access_token" THEN timedelta_minutes(access_token_expire_minutes)
    ELSE timedelta_minutes(refresh_token_expire_minutes)
\* The lifetime the caller asked for: the one passed, else the configured one.
RequestedLifetime(r) ==
    IF r.expires_delta = None THEN DefaultLifetime(r.op) ELSE r.expires_delta[1]
HasKind(t) == IsJwt(t) /\ "type" \in DOMAIN t.jwt

\* C11 as stated, its kind clause: decode_access returns claims only for a
\* token with a valid signature whose kind claim equals access; a signed
\* token that carries no kind claim gets None.
C11_AsStated ==
    (resp.op = "decode_access_token" /\ resp.result # None) =>
        LET t == resp.token[1] IN
        GoodSignature(t) /\ HasKind(t) /\ t.jwt.type = "access"

\* C12 as stated: for every user id, email, admin flag and TTL (zero
\* included), decoding the minted access token returns the minted user id,
\* email and admin flag at every time before expires_at = now + TTL and
\* None at every time after it.
C12_AsStated ==
    resp.op = "create_access_token" =>
        LET t == resp.token[1]
            expires_at == clock + RequestedLifetime(resp)
        IN  \A now \in 0..(MaxTime + 3) :
               /\ now < expires_at =>
                     decode_access_token(t, now) =
                         Some([user_id |-> resp.user_id, email |-> Some(resp.email),
                               is_admin |-> resp.is_admin, token_type |-> "access"])
               /\ now > expires_at => decode_access_token(t, now) = None

\* C13 as stated: at the instant now = expires_at decode_access and
\* decode_refresh return None.
C13_AsStated ==
    (resp.op \in {"decode_access_token", "decode_refresh_token"}
        /\ GoodSignature(resp.token[1]) /\ resp.token[1].jwt.exp = clock)
      => resp.result = None

\* C14 as stated: for every TTL passed (zero included) the minted claims
\* have issued_at = now and expires_at = now + that TTL; the configured
\* TTL is used only when none is passed.
C14_AsStated ==
    resp.op \in {"create_access_token", "create_refresh_token"} =>
        /\ resp.token[1].jwt.iat = clock
        /\ resp.token[1].jwt.exp = clock + RequestedLifetime(resp)

\* C15 as stated: decode_access and decode_refresh return None for every
\* malformed, wrongly signed, wrong-kind, expired (now >= expires_at) or
\* non-integer-subject input.
C15_AsStated ==
    resp.op \in {"decode_access_token", "decode_refresh_token"} =>
        LET t == resp.token[1]
            kind == IF resp.op = "decode_access_token" THEN "access" ELSE "refresh"
        IN  (\/ ~GoodSignature(t)
             \/ ~HasKind(t)
             \/ t.jwt.type # kind
             \/ clock >= t.jwt.exp
             \/ "sub" \notin DOMAIN t.jwt
             \/ ParseInt(t.jwt.sub) = None)
            => resp.result = None

\* ---- the revocation store called alone (StoreSpec)
\* C16 as stated: is_valid(token) is true right after register(token,
\* user_id, ttl) and false right after revoke(token).
C16_AsStated ==
    /\ resp.op = "store_refresh_token" => is_refresh_token_valid(resp.token[1])
    /\ resp.op = "revoke_refresh_token" => ~is_refresh_token_valid(resp.token[1])

\* C16 amended: right after a register that reports success (the store
\* being reachable) is_valid(token) is true and the entry holds the user
\* id; a register reports failure exactly when the store is unreachable,
\* and then writes nothing; right after a revoke is_valid(token) is false;
\* and a register, revoke or is_valid call on one token leaves the entry of
\* every other token as it was.
C16_RegisterThenRevoke ==
    [][ LET k == _get_token_key(resp'.token[1]) IN
        /\ resp'.op = "store_refresh_token" =>
              /\ resp'.ret = storeUp
              /\ resp'.ret => /\ storeUp' /\ k \in DOMAIN store'
                              /\ store'[k].value = Str(resp'.user_id)
              /\ ~resp'.ret => store' = store
        /\ resp'.op = "revoke_refresh_token" => ~(storeUp' /\ k \in DOMAIN store')
        /\ resp'.op \in {"store_refresh_token", "revoke_refresh_token",
                          "is_refresh_token_valid"} =>
              \A u \in issued \ {resp'.token[1]} :
                 /\ HasEntry(u) <=> _get_token_key(u) \in DOMAIN store'
                 /\ HasEntry(u) => store'[_get_token_key(u)] = store[_get_token_key(u)]
      ]_vars

C16_Witness ==
    /\ resp.op = "revoke_refresh_token" /\ resp.ret /\ ~HasEntry(resp.token[1])
    /\ \E u \in issued \ {resp.token[1]} : HasEntry(u) /\ is_refresh_token_valid(u)

\* C17: a registered refresh token that is never revoked stops being valid
\* once its TTL has elapsed since registration: no store entry is older
\* than its time to live, and from the second mint-and-registration time +
\* TTL on is_valid(token) is false and a refresh with the token mints
\* nothing.
C17_LapsesAfterTtl ==
    /\ \A k \in DOMAIN store : store[k].expire_at > clock
    /\ \A t \in issued :
          (IsRefreshKind(t)
             /\ clock >= t.jwt.iat + refresh_token_expire_minutes * SecondsPerMinute)
            => /\ ~is_refresh_token_valid(t)
               /\ ~Minted(refresh_response(t))
    /\ (resp.op = "refresh" /\ IsRefreshKind(resp.refresh_arg[1])
           /\ clock >= resp.refresh_arg[1].jwt.iat
                          + refresh_token_expire_minutes * SecondsPerMinute)
         => ~Minted(resp)

C17_Witness ==
    /\ resp.op = "refresh" /\ RevokedToken(resp) /\ storeUp
    /\ resp.refresh_arg[1] \notin loggedOut
    /\ clock = resp.refresh_arg[1].jwt.iat + refresh_token_expire_minutes * SecondsPerMinute

\* C18 as stated: for every refresh token minted and registered, whatever
\* TTL it was minted with, the entry's time to live equals the token's own
\* TTL.
C18_AsStated ==
    (resp.op = "store_refresh_token" /\ resp.ret) =>
        LET t == resp.token[1] IN
        store[_get_token_key(t)].expire_at - clock = t.jwt.exp - t.jwt.iat

\* C19: revoke is idempotent: on a token with no entry it leaves the store
\* unchanged and reports what it reports for any token (success while the
\* store is reachable), and a second revoke of the same token right after
\* the first leaves the store and the result as the first left them.
C19_RevokeIdempotent ==
    [][ resp'.op = "revoke_refresh_token" =>
          /\ resp'.ret = storeUp
          /\ ~HasEntry(resp'.token[1]) => store' = store
          /\ (resp.op = "revoke_refresh_token" /\ resp.token = resp'.token)
                => (store' = store /\ resp'.ret = resp.ret)
          /\ storeUp => store' = redis_delete(store, _get_token_key(resp'.token[1]))
      ]_vars

C19_Witness ==
    /\ resp.op = "revoke_refresh_token" /\ resp.ret /\ storeUp
    /\ ~HasEntry(resp.token[1]) /\ store # << >>

StoreWriters == {"store_refresh_token", "revoke_refresh_token", "revoke_all_user_tokens"}
OwnedKeys(redis, user_id) == {k \in DOMAIN redis : redis[k].value = Str(user_id)}

\* C22: with Redis unreachable, store_refresh_token and revoke_refresh_token
\* return False and revoke_all_user_tokens returns 0; the call returns (it
\* does not raise) and Redis holds what it held.
C22_FailureReported ==
    [][(~storeUp /\ resp'.op \in StoreWriters) =>
          /\ store' = store
          /\ resp'.op \in {"store_refresh_token", "revoke_refresh_token"} => resp'.ret = FALSE
          /\ resp'.op = "revoke_all_user_tokens" => resp'.count = 0]_vars
C22_Witness ==
    /\ ~storeUp
    /\ resp.op = "revoke_all_user_tokens"
    /\ resp.count = 0
    /\ OwnedKeys(store, resp.user_id) # {}

\* ---- the endpoints while Redis is unreachable (Spec)

C24_UnregisteredTokenReturned ==
    [][(~storeUp /\ resp'.op \in {"login", "register"}) =>
          LET ok == IF resp'.op = "login"
                    THEN authenticate_user(resp'.email, resp'.password).error = ""
                    ELSE ~email_exists(resp'.email)
          IN  /\ store' = store
              /\ ok => /\ resp'.status = (IF resp'.op = "login" THEN 200 ELSE 201)
                       /\ resp'.access_token # None
                       /\ IsAccessKind(resp'.access_token[1])
                       /\ resp'.refresh_token =
                             Some(create_refresh_token(resp'.user_id, None, clock))]_vars
C24_Witness ==
    /\ resp.op = "login" /\ resp.status = 200 /\ ~storeUp
    /\ resp.refresh_token # None
    /\ ~HasEntry(resp.refresh_token[1])

\* ---- sessions of one user (Spec)

\* C25 as stated: a login (or registration) registers its refresh token
\* under a store key that no refresh token issued before it, to the same
\* user or another, has.
C25_AsStated ==
    [][(resp'.op \in {"login", "register"} /\ resp'.status \in {200, 201}) =>
          \A t \in issued :
              _get_token_key(t) # _get_token_key(resp'.refresh_token[1])]_vars

\* ---- the CurrentUser dependency and the directory (Spec)

MaxWorkers == 2
Workers == 1..MaxWorkers

RegIdle ==
    [pc |-> "idle", email |-> "", password |-> "", status |-> 0, detail |-> "",
     conflict |-> "", user_id |-> 0, access_token |-> None, refresh_token |-> None]

RegInit ==
    /\ clock = 0
    /\ users = << >>
    /\ nextId = 1
    /\ store = << >>
    /\ storeUp = TRUE
    /\ issued = {}
    /\ loggedOut = {}
    /\ dbChanges = 0
    /\ resp = [w \in Workers |-> RegIdle]

\* The request arrives.
reg_begin(w, email, password) ==
    /\ resp[w].pc = "idle"
    /\ resp' = [resp EXCEPT ![w] = [RegIdle EXCEPT !.pc = "check", !.email = email,
                                                  !.password = password]]
    /\ UNCHANGED <<clock, users, nextId, store, storeUp, issued, loggedOut, dbChanges>>

\* register_user: if email_exists(db, user_data.email): raise EmailAlreadyExistsError
reg_check(w) ==
    /\ resp[w].pc = "check"
    /\ resp' = [resp EXCEPT ![w] =
                  IF email_exists(resp[w].email)
                  THEN [@ EXCEPT !.pc = "done", !.status = 409,
                                 !.detail = "Email already registered",
                                 !.conflict = "email_exists"]
                  ELSE [@ EXCEPT !.pc = "commit"]]
    /\ UNCHANGED <<clock, users, nextId, store, storeUp, issued, loggedOut, dbChanges>>

reg_commit_unconstrained(w) ==
    /\ resp[w].pc = "commit"
    /\ nextId <= MaxUsers
    /\ users' = [id \in (DOMAIN users) \cup {nextId} |->
                    IF id = nextId
                    THEN [email |-> resp[w].email,
                          password_hash |-> hash_password(resp[w].password, nextId),
                          is_admin |-> FALSE, is_active |-> TRUE, last_login_at |-> None]
                    ELSE users[id]]
    /\ nextId' = nextId + 1
    /\ resp' = [resp EXCEPT ![w] = [@ EXCEPT !.pc = "tokens", !.user_id = nextId]]
    /\ UNCHANGED <<clock, store, storeUp, issued, loggedOut, dbChanges>>

\* register_user: db.add, db.commit.  The users table has a unique index on
\* email: the INSERT of an email committed meanwhile raises IntegrityError,
\* whose message names the unique constraint; the handler rolls back and
\* raises EmailAlreadyExistsError.
reg_commit(w) ==
    /\ resp[w].pc = "commit"
    /\ IF email_exists(resp[w].email)
       THEN /\ resp' = [resp EXCEPT ![w] = [@ EXCEPT !.pc = "done", !.status = 409,
                                                     !.detail = "Email already registered",
                                                     !.conflict = "IntegrityError"]]
            /\ UNCHANGED <<clock, users, nextId, store, storeUp, issued, loggedOut, dbChanges>>
       ELSE /\ nextId <= MaxUsers
            /\ users' = [id \in (DOMAIN users) \cup {nextId} |->
                            IF id = nextId
                            THEN [email |-> resp[w].email,
                                  password_hash |-> hash_password(resp[w].password, nextId),
                                  is_admin |-> FALSE, is_active |-> TRUE,
                                  last_login_at |-> None]
                            ELSE users[id]]
            /\ nextId' = nextId + 1
            /\ resp' = [resp EXCEPT ![w] = [@ EXCEPT !.pc = "tokens", !.user_id = nextId]]
            /\ UNCHANGED <<clock, store, storeUp, issued, loggedOut, dbChanges>>

\* register: access_token, refresh_token = _create_tokens(user); 201.
reg_tokens(w) ==
    /\ resp[w].pc = "tokens"
    /\ LET t == _create_tokens(resp[w].user_id, users[resp[w].user_id]) IN
       /\ Cardinality(issued \cup {t.access, t.refresh}) <= MaxIssued
       /\ store' = t.redis
       /\ issued' = issued \cup {t.access, t.refresh}
       /\ resp' = [resp EXCEPT ![w] = [@ EXCEPT !.pc = "done", !.status = 201,
                                                !.access_token = Some(t.access),
                                                !.refresh_token = Some(t.refresh)]]
    /\ UNCHANGED <<clock, users, nextId, storeUp, loggedOut, dbChanges>>

\* The response has been sent.
reg_respond(w) ==
    /\ resp[w].pc = "done"
    /\ resp' = [resp EXCEPT ![w] = RegIdle]
    /\ UNCHANGED <<clock, users, nextId, store, storeUp, issued, loggedOut, dbChanges>>

RegTick ==
    /\ clock < MaxTime
    /\ clock' = clock + 1
    /\ store' = redis_expire(store, clock + 1)
    /\ UNCHANGED <<users, nextId, storeUp, issued, loggedOut, dbChanges, resp>>

RegOutage ==
    /\ storeUp' = ~storeUp
    /\ UNCHANGED <<clock, users, nextId, store, issued, loggedOut, dbChanges, resp>>

RegisterNext ==
    \/ \E w \in Workers, e \in Emails, p \in Passwords : reg_begin(w, e, p)
    \/ \E w \in Workers : reg_check(w)
    \/ \E w \in Workers : reg_commit(w)
    \/ \E w \in Workers : reg_tokens(w)
    \/ \E w \in Workers : reg_respond(w)
    \/ RegTick
    \/ RegOutage

RegisterSpec == RegInit /\ [][RegisterNext]_vars

\* C28: however registrations interleave, no two rows of the directory have
\* the same email; a registration of an email that is in the directory when
\* it checks, or when it commits, is answered 409 "Email already registered"
\* and that request adds no row, mints no token and writes nothing to Redis.
UniqueEmails ==
    \A i \in DOMAIN users, j \in DOMAIN users : users[i].email = users[j].email => i = j
C28_NoDuplicateEmail ==
    [][/\ UniqueEmails'
       /\ \A w \in Workers :
            /\ (resp[w].pc \in {"check", "commit"} /\ resp'[w] # resp[w]
                    /\ email_exists(resp[w].email)) =>
                  /\ resp'[w].pc = "done" /\ resp'[w].status = 409
                  /\ resp'[w].detail = "Email already registered"
                  /\ users' = users /\ issued' = issued /\ store' = store
            /\ (resp'[w].pc = "done" /\ resp'[w].status = 409) =>
                  resp'[w].access_token = None /\ resp'[w].refresh_token = None]_vars
C28_Witness ==
    \E w \in Workers :
        /\ resp[w].pc = "done" /\ resp[w].status = 409
        /\ resp[w].conflict = "IntegrityError"
        /\ Cardinality({id \in DOMAIN users : users[id].email = resp[w].email}) = 1

\* -------------------------------------------- revoke_all_user_tokens, call by call
\* revoke_all_user_tokens as the sequence of Redis calls it makes (SCAN, then
\* GET and DELETE key by key), with other requests writing Redis between any
\* two of them.  resp is the running call: where it stands (pc), its locals
\* (cursor, keys, key, count), what it returned (result), and a record of
\* what happened while it ran: Redis when it was called (start), the keys it
\* deleted (swept), the keys other requests registered meanwhile (late),
\* whether Redis was written by anyone else or by expiry (disturbed) and
\* whether a Redis call raised (raised).  owed is the part of the keyspace
\* SCAN has yet to return: the keys present since the iteration began.
ScanCount == 2

SweepIdle ==
    [pc |-> "idle", user_id |-> 0, cursor |-> 0, keys |-> {}, key |-> None, count |-> 0,
     result |-> None, owed |-> {}, start |-> << >>, swept |-> {}, late |-> {},
     disturbed |-> FALSE, raised |-> FALSE]

Sweeping == resp.pc \in {"scan", "get", "delete"}

SweepInit ==
    /\ clock = 0
    /\ users = << >>
    /\ nextId = 1
    /\ store = << >>
    /\ storeUp = TRUE
    /\ issued = {}
    /\ loggedOut = {}
    /\ dbChanges = 0
    /\ resp = SweepIdle

\* except Exception: return 0
Raise(f) == [f EXCEPT !.pc = "done", !.result = Some(0), !.raised = TRUE]

Continue_no_break(f) ==
    IF f.keys # {} THEN [f EXCEPT !.pc = "get"] ELSE [f EXCEPT !.pc = "scan"]

\* The loop's control after a key has been dealt with: the next key of the
\* batch, or the next SCAN, or return count once the cursor came back 0.
Continue(f) ==
    IF f.keys # {} THEN [f EXCEPT !.pc = "get"]
    ELSE IF f.cursor = 0 THEN [f EXCEPT !.pc = "done", !.result = Some(f.count)]
    ELSE [f EXCEPT !.pc = "scan"]

\* count = 0; cursor = 0
sweep_call(user_id) ==
    /\ resp.pc = "idle"
    /\ resp' = [SweepIdle EXCEPT !.pc = "scan", !.user_id = user_id,
                                 !.owed = DOMAIN store, !.start = store]
    /\ UNCHANGED <<clock, users, nextId, store, storeUp, issued, loggedOut, dbChanges>>

sweep_scan_one_page ==
    /\ resp.pc = "scan"
    /\ IF ~storeUp
       THEN resp' = Raise(resp)
       ELSE \E batch \in SUBSET DOMAIN store :
              /\ Cardinality(batch) <= ScanCount
              /\ (resp.owed \cap DOMAIN store # {}) => (batch \cap resp.owed # {})
              /\ resp' = Continue([resp EXCEPT !.keys = batch,
                                               !.owed = (resp.owed \ batch) \cap DOMAIN store,
                                               !.cursor = 0])
    /\ UNCHANGED <<clock, users, nextId, store, storeUp, issued, loggedOut, dbChanges>>

\* cursor, keys = redis_client.scan(cursor, match, count): Redis returns some
\* keys, among them at least one it still owes while it owes any, and
\* cursor 0 once it owes none.  A key registered or deleted since the
\* iteration began may or may not be returned.
sweep_scan ==
    /\ resp.pc = "scan"
    /\ IF ~storeUp
       THEN resp' = Raise(resp)
       ELSE \E batch \in SUBSET DOMAIN store :
              /\ Cardinality(batch) <= ScanCount
              /\ (resp.owed \cap DOMAIN store # {}) => (batch \cap resp.owed # {})
              /\ LET owed == (resp.owed \ batch) \cap DOMAIN store IN
                 resp' = Continue([resp EXCEPT !.keys = batch, !.owed = owed,
                                               !.cursor = IF owed = {} THEN 0 ELSE 1])
    /\ UNCHANGED <<clock, users, nextId, store, storeUp, issued, loggedOut, dbChanges>>

sweep_get_any_owner(key) ==
    /\ resp.pc = "get"
    /\ key \in resp.keys
    /\ IF ~storeUp
       THEN resp' = Raise(resp)
       ELSE IF key \in DOMAIN store
            THEN resp' = [resp EXCEPT !.pc = "delete", !.key = Some(key), !.keys = @ \ {key}]
            ELSE resp' = Continue([resp EXCEPT !.keys = @ \ {key}])
    /\ UNCHANGED <<clock, users, nextId, store, storeUp, issued, loggedOut, dbChanges>>

\* for key in keys: if redis_client.get(key) == str(user_id):
sweep_get(key) ==
    /\ resp.pc = "get"
    /\ key \in resp.keys
    /\ IF ~storeUp
       THEN resp' = Raise(resp)
       ELSE IF key \in DOMAIN store /\ store[key].value = Str(resp.user_id)
            THEN resp' = [resp EXCEPT !.pc = "delete", !.key = Some(key), !.keys = @ \ {key}]
            ELSE resp' = Continue([resp EXCEPT !.keys = @ \ {key}])
    /\ UNCHANGED <<clock, users, nextId, store, storeUp, issued, loggedOut, dbChanges>>

sweep_delete_uncounted ==
    /\ resp.pc = "delete"
    /\ IF ~storeUp
       THEN resp' = Raise(resp) /\ store' = store
       ELSE /\ store' = redis_delete(store, resp.key[1])
            /\ resp' = Continue([resp EXCEPT !.key = None,
                                             !.swept = @ \cup ({resp.key[1]} \cap DOMAIN store)])
    /\ UNCHANGED <<clock, users, nextId, storeUp, issued, loggedOut, dbChanges>>

\* redis_client.delete(key); count += 1
sweep_delete ==
    /\ resp.pc = "delete"
    /\ IF ~storeUp
       THEN resp' = Raise(resp) /\ store' = store
       ELSE /\ store' = redis_delete(store, resp.key[1])
            /\ resp' = Continue([resp EXCEPT !.key = None, !.count = @ + 1,
                                             !.swept = @ \cup ({resp.key[1]} \cap DOMAIN store)])
    /\ UNCHANGED <<clock, users, nextId, storeUp, issued, loggedOut, dbChanges>>

\* The caller has the result.
sweep_return ==
    /\ resp.pc = "done"
    /\ resp' = SweepIdle
    /\ UNCHANGED <<clock, users, nextId, store, storeUp, issued, loggedOut, dbChanges>>

\* What a running call's record keeps of a write by someone else.
Meanwhile(redis, registered) ==
    IF Sweeping
    THEN [resp EXCEPT !.disturbed = @ \/ redis # store, !.late = @ \cup registered]
    ELSE resp

\* Another request logs a user in: _create_tokens mints a refresh token and
\* registers it.
other_login(user_id) ==
    LET token == create_refresh_token(user_id, None, clock)
        r == store_refresh_token(token, user_id)
    IN  /\ Cardinality(issued \cup {token}) <= MaxRegistered
        /\ issued' = issued \cup {token}
        /\ store' = r.redis
        /\ resp' = Meanwhile(r.redis, IF r.ret THEN {_get_token_key(token)} ELSE {})
        /\ UNCHANGED <<clock, users, nextId, storeUp, loggedOut, dbChanges>>

\* Another request logs a session out.
other_logout(token) ==
    LET r == revoke_refresh_token(token) IN
    /\ store' = r.redis
    /\ resp' = Meanwhile(r.redis, {})
    /\ UNCHANGED <<clock, users, nextId, storeUp, issued, loggedOut, dbChanges>>

SweepTick ==
    /\ clock < MaxTime
    /\ clock' = clock + 1
    /\ store' = redis_expire(store, clock + 1)
    /\ resp' = Meanwhile(redis_expire(store, clock + 1), {})
    /\ UNCHANGED <<users, nextId, storeUp, issued, loggedOut, dbChanges>>

SweepOutage ==
    /\ storeUp' = ~storeUp
    /\ UNCHANGED <<clock, users, nextId, store, issued, loggedOut, dbChanges, resp>>

\* The steps of the running call.
SweepStep ==
    \/ sweep_scan
    \/ \E k \in resp.keys : sweep_get(k)
    \/ sweep_delete

SweepNext ==
    \/ \E u \in 1..MaxUsers : sweep_call(u)
    \/ SweepStep
    \/ sweep_return
    \/ \E u \in 1..MaxUsers : other_login(u)
    \/ \E t \in issued : other_logout(t)
    \/ SweepTick
    \/ SweepOutage

SweepSpec == SweepInit /\ [][SweepNext]_vars

\* The call is a thread of the server; it is scheduled until it returns, and
\* each of its Redis calls returns or raises within the client's socket
\* timeouts.
SweepFairSpec == SweepSpec /\ WF_vars(SweepStep)


\* C21 as stated: a call of revoke_all_user_tokens(user_id) that no other
\* request and no expiry interferes with returns the number of entries the
\* user had when it was called and leaves Redis holding exactly the other
\* users' entries, unchanged.
C21_AsStated ==
    [][(Sweeping /\ resp'.pc = "done" /\ ~resp'.disturbed) =>
          LET own == OwnedKeys(resp'.start, resp'.user_id) IN
          /\ resp'.result = Some(Cardinality(own))
          /\ store' = [k \in (DOMAIN resp'.start) \ own |-> resp'.start[k]]]_vars

\* C21: such a call, when none of its Redis calls raised, deleted exactly
\* the user's entries, returns their number and leaves every other entry
\* (key, value, expiry) as it was; when a Redis call raised it returns 0,
\* has deleted only entries of that user, and leaves every other entry as
\* it was.
C21_RevokeAllFrame ==
    [][(Sweeping /\ resp'.pc = "done" /\ ~resp'.disturbed) =>
          LET own == OwnedKeys(resp'.start, resp'.user_id)
              others == (DOMAIN resp'.start) \ own
          IN  /\ \A k \in others : k \in DOMAIN store' /\ store'[k] = resp'.start[k]
              /\ DOMAIN store' \subseteq DOMAIN resp'.start
              /\ resp'.swept \subseteq own
              /\ IF resp'.raised
                 THEN resp'.result = Some(0)
                 ELSE /\ resp'.result = Some(Cardinality(own))
                      /\ resp'.swept = own
                      /\ DOMAIN store' = others]_vars
C21_Witness ==
    /\ resp.pc = "done" /\ ~resp.disturbed /\ ~resp.raised
    /\ resp.result = Some(1)
    /\ \E k \in DOMAIN resp.start :
          /\ resp.start[k].value # Str(resp.user_id)
          /\ k \in DOMAIN store

\* C29: whatever other requests do while revoke_all_user_tokens(u) runs, a
\* step of the call deletes at most one entry, an entry of u, and leaves
\* every other entry as it was; an entry registered for u while the call
\* runs is deleted by it or survives it (the witness is a completed call
\* with one of each).
C29_SweepRace ==
    [][(Sweeping /\ (resp'.pc # resp.pc \/ resp'.keys # resp.keys)) =>
          /\ DOMAIN store' \subseteq DOMAIN store
          /\ \A k \in DOMAIN store :
                IF k \in DOMAIN store'
                THEN store'[k] = store[k]
                ELSE store[k].value = Str(resp.user_id) /\ resp.key = Some(k)
          /\ resp'.late = resp.late]_vars
C29_Witness ==
    /\ resp.pc = "done" /\ ~resp.raised
    /\ \E caught \in resp.late \cap resp.swept : caught \notin DOMAIN store
    /\ \E missed \in resp.late \ resp.swept :
          missed \in DOMAIN store /\ store[missed].value = Str(resp.user_id)

C31_AsStated ==
    resp.pc = "done" => resp.result = Some(Cardinality(resp.swept))


\* ------------------------------------------ refresh and logout served in parallel
\* POST /refresh and POST /logout handled by several workers on one database
\* and one Redis; a step is one access to either.  resp[w] is the request
\* worker w is serving.  loggedOut holds the tokens a completed logout has
\* deleted from Redis.
SesIdle ==
    [pc |-> "idle", op |-> "", token |-> None, status |-> 0, detail |-> "",
     user_id |-> 0, access_token |-> None]

SesInit ==
    /\ clock = 0
    /\ users = << >>
    /\ nextId = 1
    /\ store = << >>
    /\ storeUp = TRUE
    /\ issued = {}
    /\ loggedOut = {}
    /\ dbChanges = 0
    /\ resp = [w \in Workers |-> SesIdle]

\* POST /register and POST /login, each served between two steps of the
\* requests under way.
ses_register(email, password) ==
    LET row == [email |-> email, password_hash |-> hash_password(password, nextId),
                is_admin |-> FALSE, is_active |-> TRUE, last_login_at |-> None]
        t == _create_tokens(nextId, row)
    IN  /\ ~email_exists(email)
        /\ nextId <= MaxUsers
        /\ Cardinality(issued \cup {t.access, t.refresh}) <= MaxIssued
        /\ users' = [id \in (DOMAIN users) \cup {nextId} |->
                        IF id = nextId THEN row ELSE users[id]]
        /\ nextId' = nextId + 1
        /\ store' = t.redis
        /\ issued' = issued \cup {t.access, t.refresh}
        /\ UNCHANGED <<clock, storeUp, loggedOut, dbChanges, resp>>

ses_login(email, password) ==
    LET auth == authenticate_user(email, password) IN
    /\ auth.error = ""
    /\ LET row == [users[auth.user_id] EXCEPT !.last_login_at = Some(clock)]
           t == _create_tokens(auth.user_id, row)
       IN  /\ Cardinality(issued \cup {t.access, t.refresh}) <= MaxIssued
           /\ users' = [users EXCEPT ![auth.user_id] = row]
           /\ store' = t.redis
           /\ issued' = issued \cup {t.access, t.refresh}
    /\ UNCHANGED <<clock, nextId, storeUp, loggedOut, dbChanges, resp>>

\* refresh_token: user_id = decode_refresh_token(token)
rf_call(w, token) ==
    /\ resp[w].pc = "idle"
    /\ LET user_id == decode_refresh_token(token, clock)
           req == [SesIdle EXCEPT !.op = "refresh", !.token = Some(token)]
       IN  resp' = [resp EXCEPT ![w] =
                      IF user_id = None
                      THEN [req EXCEPT !.pc = "done", !.status = 401,
                                       !.detail = "Invalid or expired refresh token"]
                      ELSE [req EXCEPT !.pc = "is_valid", !.user_id = user_id[1]]]
    /\ UNCHANGED <<clock, users, nextId, store, storeUp, issued, loggedOut, dbChanges>>

\* refresh_token: if not is_refresh_token_valid(token)
rf_is_valid(w) ==
    /\ resp[w].pc = "is_valid"
    /\ resp' = [resp EXCEPT ![w] =
                  IF ~is_refresh_token_valid(resp[w].token[1])
                  THEN [@ EXCEPT !.pc = "done", !.status = 401,
                                 !.detail = "Refresh token has been revoked"]
                  ELSE [@ EXCEPT !.pc = "get_user"]]
    /\ UNCHANGED <<clock, users, nextId, store, storeUp, issued, loggedOut, dbChanges>>

\* refresh_token: user = get_user_by_id(db, user_id), then the new access token
rf_get_user(w) ==
    /\ resp[w].pc = "get_user"
    /\ LET id == resp[w].user_id IN
       IF get_user_by_id(id) = None
       THEN /\ resp' = [resp EXCEPT ![w] = [@ EXCEPT !.pc = "done", !.status = 401,
                                                     !.detail = "User not found"]]
            /\ issued' = issued
       ELSE IF ~users[id].is_active
       THEN /\ resp' = [resp EXCEPT ![w] = [@ EXCEPT !.pc = "done", !.status = 403,
                                                     !.detail = "Account is deactivated"]]
            /\ issued' = issued
       ELSE LET access_token == create_access_token(id, users[id].email,
                                                    users[id].is_admin, None, clock)
            IN  /\ Cardinality(issued \cup {access_token}) <= MaxIssued
                /\ issued' = issued \cup {access_token}
                /\ resp' = [resp EXCEPT ![w] = [@ EXCEPT !.pc = "done", !.status = 200,
                                                         !.access_token = Some(access_token)]]
    /\ UNCHANGED <<clock, users, nextId, store, storeUp, loggedOut, dbChanges>>

\* logout: the CurrentUser dependency, then decode_refresh_token and the
\* owner test
lo_call(w, bearer, token) ==
    /\ resp[w].pc = "idle"
    /\ LET r == logout_response(bearer, token)
           req == [SesIdle EXCEPT !.op = "logout", !.token = Some(token),
                                  !.user_id = r.user_id]
       IN  resp' = [resp EXCEPT ![w] =
                      IF r.status # 200
                      THEN [req EXCEPT !.pc = "done", !.status = r.status, !.detail = r.detail]
                      ELSE [req EXCEPT !.pc = "revoke"]]
    /\ UNCHANGED <<clock, users, nextId, store, storeUp, issued, loggedOut, dbChanges>>

\* logout: revoke_refresh_token(token), then the message
lo_revoke(w) ==
    /\ resp[w].pc = "revoke"
    /\ LET r == revoke_refresh_token(resp[w].token[1]) IN
       /\ store' = r.redis
       /\ loggedOut' = IF r.ret THEN loggedOut \cup {resp[w].token[1]} ELSE loggedOut
    /\ resp' = [resp EXCEPT ![w] = [@ EXCEPT !.pc = "done", !.status = 200,
                                             !.detail = "Successfully logged out"]]
    /\ UNCHANGED <<clock, users, nextId, storeUp, issued, dbChanges>>

\* The response has been sent.
ses_respond(w) ==
    /\ resp[w].pc = "done"
    /\ resp' = [resp EXCEPT ![w] = SesIdle]
    /\ UNCHANGED <<clock, users, nextId, store, storeUp, issued, loggedOut, dbChanges>>

SesTick ==
    /\ clock < MaxTime
    /\ clock' = clock + 1
    /\ store' = redis_expire(store, clock + 1)
    /\ UNCHANGED <<users, nextId, storeUp, issued, loggedOut, dbChanges, resp>>

SessionNext ==
    \/ \E e \in Emails : ses_register(e, OwnPassword(e))
    \/ \E e \in Emails : ses_login(e, OwnPassword(e))
    \/ \E w \in Workers, t \in issued : rf_call(w, t)
    \/ \E w \in Workers : rf_is_valid(w)
    \/ \E w \in Workers : rf_get_user(w)
    \/ \E w \in Workers, b \in issued, t \in issued : lo_call(w, b, t)
    \/ \E w \in Workers : lo_revoke(w)
    \/ \E w \in Workers : ses_respond(w)
    \/ SesTick

SessionSpec == SesInit /\ [][SessionNext]_vars

\* C32 as stated: whatever the interleaving, a refresh mints no access
\* token from a refresh token whose entry a logout that has completed
\* deleted, its is_refresh_token_valid check passed or not.
C32_AsStated ==
    [][\A w \in Workers :
          (resp[w].pc = "get_user" /\ resp'[w].pc = "done" /\ resp'[w].status = 200)
              => resp[w].token[1] \notin loggedOut]_vars


\* ---- what Redis holds (Spec)

\* C33: every key in Redis is the prefix "refresh_token:" followed by the
\* SHA-256 of a refresh token the service issued, never by the token, and
\* the value stored under it is that token's subject.
C33_EntriesMatchTokens ==
    \A k \in DOMAIN store :
        /\ k[1] = "refresh_token:"
        /\ k[2] \notin issued
        /\ \E t \in issued :
              /\ IsRefreshKind(t)
              /\ k = <<"refresh_token:", sha256(t)>>
              /\ store[k].value = t.jwt.sub
C33_Witness ==
    /\ \E k1 \in DOMAIN store, k2 \in DOMAIN store : store[k1].value # store[k2].value
    /\ loggedOut # {}
    /\ resp.op = "revoke_all"


\* ---- access tokens after a logout (Spec)

C35_FailedLoginChangesNothing ==
    [][/\ (resp'.op = "login" /\ resp'.status # 200) =>
             /\ resp'.status = 401
             /\ resp'.access_token = None /\ resp'.refresh_token = None
             /\ users' = users /\ store' = store /\ issued' = issued
       /\ \A id \in (DOMAIN users) \cap (DOMAIN users') :
             users'[id].last_login_at # users[id].last_login_at =>
                 /\ resp'.op = "login" /\ resp'.status = 200 /\ resp'.user_id = id
                 /\ authenticate_user(resp'.email, resp'.password).user_id = id
                 /\ users'[id].last_login_at = Some(clock)]_vars
C35_Witness ==
    /\ resp.op = "login" /\ resp.status = 401
    /\ \E id \in DOMAIN users :
          /\ users[id].email = resp.email
          /\ users[id].last_login_at \notin {None, Some(clock)}


\* ---- refresh without an entry (Spec)

\* C36 as stated: a refresh with a refresh token the service issued is
\* answered "revoked" whenever Redis holds no entry for it or is
\* unreachable.
C36_AsStated ==
    (resp.op = "refresh" /\ resp.refresh_arg[1] \in issued
         /\ IsRefreshKind(resp.refresh_arg[1])
         /\ (~storeUp \/ ~HasEntry(resp.refresh_arg[1])))
        => RevokedToken(resp)

\* C36: a refresh with a refresh token the service issued, made while Redis
\* holds no entry for it or is unreachable, mints nothing: it is answered
\* "revoked" while the token still decodes, and "invalid or expired" once
\* the clock has passed its exp.
C36_NoEntryNoRefresh ==
    (resp.op = "refresh" /\ resp.refresh_arg[1] \in issued
         /\ IsRefreshKind(resp.refresh_arg[1])
         /\ (~storeUp \/ ~HasEntry(resp.refresh_arg[1])))
        => /\ ~Minted(resp)
           /\ resp.access_token = None
           /\ IF resp.refresh_arg[1].jwt.exp >= clock
              THEN RevokedToken(resp)
              ELSE resp.status = 401 /\ resp.detail = "Invalid or expired refresh token"
C36_Witness ==
    /\ resp.op = "refresh" /\ RevokedToken(resp) /\ storeUp
    /\ resp.refresh_arg[1] \in issued \ loggedOut
    /\ resp.refresh_arg[1].jwt.exp > clock
    /\ ~HasEntry(resp.refresh_arg[1])
    /\ \A k \in DOMAIN store : store[k].value # resp.refresh_arg[1].jwt.sub


\* ---- what a refused login tells (Spec)

\* C37: a login is answered "Account is deactivated" only when the password
\* is the account's and the account is deactivated; with an unknown email
\* or a wrong password the answer is 401 "Invalid email or password",
\* whether the account exists, is active or not.
C37_DeactivationNeedsPassword ==
    resp.op = "login" =>
        LET known == email_exists(resp.email)
            right == known /\ resp.password = OwnPassword(resp.email)
        IN  /\ resp.detail = "Account is deactivated" =>
                  /\ right
                  /\ \E id \in DOMAIN users :
                        users[id].email = resp.email /\ ~users[id].is_active
            /\ ~right => /\ resp.status = 401
                         /\ resp.detail = "Invalid email or password"
                         /\ resp.access_token = None /\ resp.refresh_token = None
C37_Witness ==
    /\ resp.op = "login" /\ resp.detail = "Invalid email or password"
    /\ resp.password # OwnPassword(resp.email)
    /\ \E id \in DOMAIN users : users[id].email = resp.email /\ ~users[id].is_active


\* ---- the claims of a refreshed access token (Spec)

\* C38: the access token a refresh mints carries the subject of the refresh
\* token and the email and admin flag the directory holds for that user at
\* the time of the refresh, with the lifetime counted from then.
C38_RefreshReadsDirectory ==
    (resp.op = "refresh" /\ Minted(resp)) =>
        LET access == resp.access_token[1]
            id == resp.user_id
        IN  /\ id \in DOMAIN users
            /\ resp.refresh_arg[1].jwt.sub = Str(id)
            /\ access = create_access_token(id, users[id].email, users[id].is_admin,
                                            None, clock)
            /\ access.jwt.email = users[id].email
            /\ access.jwt.is_admin = users[id].is_admin
C38_Witness ==
    /\ resp.op = "refresh" /\ Minted(resp)
    /\ resp.access_token[1].jwt.is_admin
    /\ \E b \in issued :
          /\ IsAccessKind(b) /\ b.jwt.sub = resp.access_token[1].jwt.sub
          /\ ~b.jwt.is_admin
          /\ b.jwt.iat <= resp.refresh_arg[1].jwt.iat


\* ---- what a completed revoke_all_user_tokens has removed (SweepSpec)

\* C39: when a call of revoke_all_user_tokens(u) returns without a Redis
\* call having raised, no entry that u had when the call began is in Redis,
\* but for a key that another request registered again while the call ran;
\* this whatever registrations, logouts and expiries fell between its
\* Redis calls.
C39_SweepRemovesEarlierEntries ==
    [][(Sweeping /\ resp'.pc = "done" /\ ~resp'.raised) =>
          \A k \in OwnedKeys(resp'.start, resp'.user_id) :
              k \in DOMAIN store' => k \in resp'.late]_vars
C39_Witness ==
    /\ resp.pc = "done" /\ ~resp.raised /\ resp.disturbed
    /\ Cardinality(OwnedKeys(resp.start, resp.user_id)) = 2
    /\ resp.swept = OwnedKeys(resp.start, resp.user_id)
    /\ resp.late # {}
    /\ OwnedKeys(resp.start, resp.user_id) \cap DOMAIN store = {}

====
